---- MODULE Spec2Model ----
(***************************************************************************)
(* Model of SCF.py, the functions of the Hartree-Fock SCF procedure.       *)
(*                                                                         *)
(* numpy arrays are objects on a heap (a sequence of arrays, an address is *)
(* an index into it), so that aliasing and in-place updates are visible.   *)
(* Floating-point numbers are modelled by exact rationals <<num, den>>     *)
(* (den > 0, lowest terms); the IEEE specials inf, -inf and nan appear     *)
(* where the code can produce them (a division by a zero distance).        *)
(***************************************************************************)
EXTENDS Integers, Sequences, FiniteSets, TLC

\* ---------------------------------------------------------------- bounds
MaxNao == 2        \* number of atomic orbitals mol.nao ranges over 1..MaxNao
MaxVal == 1        \* integer matrix entries range over -MaxVal..MaxVal
MaxAtoms == 4      \* number of atoms ranges over 1..MaxAtoms
MaxCoord == 1      \* atoms sit at <<x,0,0>>, x in 0..MaxCoord, and two more points
MaxCharge == 1     \* nuclear charges range over 0..MaxCharge
MaxCalls == 2      \* calls made in a sequence of core operations
MaxIter == 2       \* the configured maximum number of SCF iterations ranges over 1..MaxIter

\* ------------------------------------------------------------- variables
VARIABLES
    mol,     \* the molecule handed to the functions: nao, nelec, charges, coords
    heap,    \* the numpy arrays allocated so far
    env,     \* the caller's names: addresses of arrays, scalars, configuration
    call,    \* the last call made: function, arguments, returned value
    pc       \* the caller's position

vars == <<mol, heap, env, call, pc>>

\* ------------------------------------------------------------- rationals
\* The arithmetic is written as functions, whose arguments are evaluated once.
Abs(x) == IF x < 0 THEN -x ELSE x

GCD[a \in Nat, b \in Nat] == IF b = 0 THEN a ELSE GCD[b, a % b]

\* the float n/d (d > 0) in lowest terms
Frac[n \in Int, d \in Nat] == <<n \div GCD[Abs(n), d], d \div GCD[Abs(n), d]>>

\* an integer as a float
Flt(n) == <<n, 1>>

Floats == Int \X Nat

FAdd[a \in Floats, b \in Floats] == Frac[a[1] * b[2] + b[1] * a[2], a[2] * b[2]]
FSub[a \in Floats, b \in Floats] == Frac[a[1] * b[2] - b[1] * a[2], a[2] * b[2]]
FMul[a \in Floats, b \in Floats] == Frac[a[1] * b[1], a[2] * b[2]]
FAbs(a) == <<Abs(a[1]), a[2]>>
FLess(a, b) == a[1] * b[2] < b[1] * a[2]

\* the sum of the first k entries of a sequence of floats
RECURSIVE FSumTo(_, _)
FSumTo(s, k) == IF k = 0 THEN Flt(0) ELSE FAdd[FSumTo(s, k - 1), s[k]]

\* the sum of a sequence of floats
FSum(s) == FSumTo(s, Len(s))

\* ---------------------------------------------------------------- arrays
Range(n) == 0 .. (n - 1)
Idx2(n) == Range(n) \X Range(n)
Idx4(n) == Range(n) \X Range(n) \X Range(n) \X Range(n)

\* the cells of an n x n array in row-major order (the order of the nested loops)
Cells(n) == [c \in 1 .. (n * n) |-> <<(c - 1) \div n, (c - 1) % n>>]

\* np.zeros((n, n), dtype=np.double)
Zeros(n) == [shape |-> <<n, n>>, data |-> [p \in Idx2(n) |-> Flt(0)]]

\* numpy's bounds check of a two-index access with non-negative indices
InBounds(arr, i, j) == i < arr.shape[1] /\ j < arr.shape[2]

\* (A * B).sum() of two n x n blocks of data
MulSum(n, A, B) == FSum([c \in 1 .. (n * n) |-> FMul[A[Cells(n)[c]], B[Cells(n)[c]]]])

\* a value returned, or the exception raised
Ok(v) == [k |-> "ok", v |-> v]
IndexError == [k |-> "IndexError", v |-> 0]

\* ------------------------------------------------- calc_initial_density
\* Duv = np.zeros((num_aos, num_aos)); return Duv
calc_initial_density(hp, mol_) ==
    [heap |-> Append(hp, Zeros(mol_.nao)), ret |-> Ok(Len(hp) + 1)]

\* --------------------------------------------------- calc_hcore_matrix
\* h_core = Tuv_ + Vuv_ : the elementwise sum, a new array
calc_hcore_matrix(hp, Tuv_, Vuv_) ==
    LET h_core == [shape |-> hp[Tuv_].shape,
                   data  |-> [p \in DOMAIN hp[Tuv_].data |->
                                 FAdd[hp[Tuv_].data[p], hp[Vuv_].data[p]]]]
    IN  [heap |-> Append(hp, h_core), ret |-> Ok(Len(hp) + 1)]

\* ---------------------------------------------------- calc_fock_matrix
\* a faulty variant: Fuv = h_core_ (no copy), the result aliases the argument
NoCopy(hp, a) == [heap |-> hp, ret |-> a]

\* h_core_.copy(): a new array holding the same values
CopyOf(hp, a) == [heap |-> Append(hp, hp[a]), ret |-> Len(hp) + 1]

\* er_ints_[i, j]: the n x n block over the third and fourth indices
CoulombSlice(er, n, i, j) == [p \in Idx2(n) |-> er[<<i, j, p[1], p[2]>>]]

\* a faulty variant: the block er_ints_[i, :, :, j] read transposed, ERI[i,l,k,j] at [k,l]
ExchangeSliceInner(er, n, i, j) == [p \in Idx2(n) |-> er[<<i, p[2], p[1], j>>]]

\* a faulty variant: the Coulomb block used for the exchange term as well
ExchangeSliceAsCoulomb(er, n, i, j) == [p \in Idx2(n) |-> er[<<i, j, p[1], p[2]>>]]

\* er_ints_[i, :, j]: the n x n block over the second and fourth indices
ExchangeSlice(er, n, i, j) == [p \in Idx2(n) |-> er[<<i, p[1], j, p[2]>>]]

\* a faulty variant: for j in range(i, num_aos), only the upper triangle is built
FockCellsUpper(n) == SelectSeq(Cells(n), LAMBDA c : c[1] <= c[2])

\* for i in range(num_aos): for j in range(num_aos)
FockCells(n) == Cells(n)

\* the nested loops: Fuv[i, j] += (Duv_*er_ints_[i, j]).sum()
\* - 0.5*(Duv_*er_ints_[i, :, j]).sum(), in place on Fuv for each cell the loops visit
FockLoop(hp, n, Fuv, er_ints_, Duv_, cells) ==
    LET visited == {cells[c] : c \in 1 .. Len(cells)}
        J(i, j) == MulSum(n, hp[Duv_].data, CoulombSlice(hp[er_ints_].data, n, i, j))
        K(i, j) == MulSum(n, hp[Duv_].data, ExchangeSlice(hp[er_ints_].data, n, i, j))
    IN  [hp EXCEPT ![Fuv].data =
            [p \in Idx2(n) |->
                IF p \in visited
                THEN FAdd[hp[Fuv].data[p], FSub[J(p[1], p[2]), FMul[<<1, 2>>, K(p[1], p[2])]]]
                ELSE hp[Fuv].data[p]]]

calc_fock_matrix(hp, mol_, h_core_, er_ints_, Duv_) ==
    LET c == CopyOf(hp, h_core_)
        num_aos == mol_.nao
    IN  [heap |-> FockLoop(c.heap, num_aos, c.ret, er_ints_, Duv_, FockCells(num_aos)),
         ret  |-> Ok(c.ret)]

\* -------------------------------------------------- form_density_matrix
\* a faulty variant: the sum runs over all the atomic orbitals
OccRangeAll(mol_) == Range(mol_.nao)

\* for k in range(nelec), nelec = mol_.nelec[0]
OccRange(mol_) == Range(mol_.nelec[1])

\* the triple loop: Duv[i, j] += 2.0*mo_coeffs_[i, k]*mo_coeffs_[j, k] for k in occ;
\* an access mo_coeffs_[i, k] out of bounds raises IndexError
DensityLoop(hp, Duv, mo_coeffs_, occ, cells) ==
    LET C == hp[mo_coeffs_]
        ks == [x \in 1 .. Cardinality(occ) |-> x - 1]
        s(i, j) == FSum([x \in 1 .. Cardinality(occ) |->
                           FMul[Flt(2), FMul[C.data[<<i, ks[x]>>], C.data[<<j, ks[x]>>]]]])
    IN  IF \E c \in 1 .. Len(cells), k \in occ :
               ~InBounds(C, cells[c][1], k) \/ ~InBounds(C, cells[c][2], k)
        THEN [heap |-> hp, ret |-> IndexError]
        ELSE [heap |-> [hp EXCEPT ![Duv].data =
                           [p \in DOMAIN hp[Duv].data |->
                               FAdd[hp[Duv].data[p], s(p[1], p[2])]]],
              ret  |-> Ok(Duv)]

\* on an exception the local array Duv is dropped: the caller's heap is as before
form_density_matrix(hp, mol_, mo_coeffs_) ==
    LET num_aos == mol_.nao
        Duv == Len(hp) + 1
        r == DensityLoop(Append(hp, Zeros(num_aos)), Duv, mo_coeffs_,
                         OccRange(mol_), Cells(num_aos))
    IN  IF r.ret.k = "ok" THEN r ELSE [heap |-> hp, ret |-> r.ret]

\* ------------------------------------------------------ calc_tot_energy
\* a faulty variant: the nuclear repulsion energy is not added
calc_tot_energy_NoEnuc(hp, Fuv_, Huv_, Duv_, Enuc_) ==
    LET n == hp[Duv_].shape[1]
        HF == [p \in Idx2(n) |-> FAdd[hp[Huv_].data[p], hp[Fuv_].data[p]]]
    IN  [heap |-> hp, ret |-> Ok(FMul[<<1, 2>>, MulSum(n, hp[Duv_].data, HF)])]

\* Etot = 0.5*(Duv_*(Huv_+Fuv_)).sum()+Enuc_ ; the temporaries are dropped
calc_tot_energy(hp, Fuv_, Huv_, Duv_, Enuc_) ==
    LET n == hp[Duv_].shape[1]
        HF == [p \in Idx2(n) |-> FAdd[hp[Huv_].data[p], hp[Fuv_].data[p]]]
    IN  [heap |-> hp,
         ret  |-> Ok(FAdd[FMul[<<1, 2>>, MulSum(n, hp[Duv_].data, HF)], Enuc_])]

\* ----------------------------------------- calc_nuclear_repulsion_energy
CoordDim == 3      \* coords.shape[1]: the Cartesian components of a position
DistDim == 3       \* np.zeros((3, 3)): the rows and columns of distance_matrix

\* IEEE doubles as the division can produce them
Fin(r) == [k |-> "fin", v |-> r]
Inf == [k |-> "inf", v |-> Flt(0)]
NegInf == [k |-> "-inf", v |-> Flt(0)]
NaN == [k |-> "nan", v |-> Flt(0)]

\* an integer divided by a double d >= 0; numpy warns on a zero divisor and goes on
IeeeDiv(n, d) ==
    IF d[1] = 0
    THEN (IF n > 0 THEN Inf ELSE IF n < 0 THEN NegInf ELSE NaN)
    ELSE Fin(Frac[n * d[2], d[1]])

IeeeAdd(a, b) ==
    IF a.k = "nan" \/ b.k = "nan" THEN NaN
    ELSE IF a.k = "fin" /\ b.k = "fin" THEN Fin(FAdd[a.v, b.v])
    ELSE IF a.k = "fin" THEN b
    ELSE IF b.k = "fin" \/ a.k = b.k THEN a
    ELSE NaN

\* the square root of a perfect square
Sqrt(s) == CHOOSE r \in 0 .. s : r * r = s

\* np.linalg.norm(a - b) of two positions
Norm(a, b) ==
    Flt(Sqrt((a[1] - b[1]) * (a[1] - b[1]) + (a[2] - b[2]) * (a[2] - b[2])
               + (a[3] - b[3]) * (a[3] - b[3])))

\* the index pairs <<i, j>> of two nested loops, i in range(rows), j in range(cols)
LoopPairs(rows, cols) == [c \in 1 .. (rows * cols) |-> <<(c - 1) \div cols, (c - 1) % cols>>]

\* populating distance_matrix: coords[j] and distance_matrix[i, j] are bounds-checked
RECURSIVE DistanceLoop(_, _, _)
DistanceLoop(distance_matrix, coords, pairs) ==
    IF pairs = <<>> THEN Ok(distance_matrix)
    ELSE LET i == Head(pairs)[1]
             j == Head(pairs)[2]
         IN  IF i >= Len(coords) \/ j >= Len(coords) THEN IndexError
             ELSE IF i >= DistDim \/ j >= DistDim THEN IndexError
             ELSE DistanceLoop([distance_matrix EXCEPT ![<<i, j>>] = Norm(coords[i + 1], coords[j + 1])],
                               coords, Tail(pairs))

\* Enuc += (charges[i]*charges[j])/distance_matrix[i, j] over the pairs
RECURSIVE EnucLoop(_, _, _, _)
EnucLoop(Enuc, charges, distance_matrix, pairs) ==
    IF pairs = <<>> THEN Ok(Enuc)
    ELSE LET i == Head(pairs)[1]
             j == Head(pairs)[2]
         IN  IF i >= Len(charges) \/ j >= Len(charges) THEN IndexError
             ELSE IF i >= DistDim \/ j >= DistDim THEN IndexError
             ELSE EnucLoop(IeeeAdd(Enuc, IeeeDiv(charges[i + 1] * charges[j + 1],
                                                 distance_matrix[<<i, j>>])),
                           charges, distance_matrix, Tail(pairs))

calc_nuclear_repulsion_energy(mol_) ==
    LET charges == mol_.charges
        coords == mol_.coords
        rows == Len(coords)
        dm == DistanceLoop([p \in Idx2(DistDim) |-> Flt(0)], coords, LoopPairs(rows, CoordDim))
    IN  IF dm.k # "ok" THEN dm
        ELSE EnucLoop(Fin(Flt(0)), charges, dm.v,
                      SelectSeq(LoopPairs(rows, CoordDim), LAMBDA c : c[2] > c[1]))

\* ---------------------------------------------- solve_Roothan_equations
\* the identity, the columns reversed, and the identity with its first column negated
EigenvectorSets(n) ==
    {[p \in Idx2(n) |-> IF p[1] = p[2] THEN Flt(1) ELSE Flt(0)],
     [p \in Idx2(n) |-> IF p[1] + p[2] = n - 1 THEN Flt(1) ELSE Flt(0)],
     [p \in Idx2(n) |-> IF p[1] = p[2] THEN (IF p[1] = 0 THEN Flt(-1) ELSE Flt(1)) ELSE Flt(0)]}

\* sp.linalg.eigh(Fuv_, b=Suv_) is the library's: its eigenvectors are any one of a
\* few orthonormal coefficient matrices, returned as a new array (the eigenvalues are
\* not used by the other functions)
solve_Roothan_equations(hp, Fuv_, Suv_) ==
    {[heap |-> Append(hp, [shape |-> hp[Fuv_].shape, data |-> C]), ret |-> Ok(Len(hp) + 1)] :
        C \in EigenvectorSets(hp[Fuv_].shape[1])}

\* ----------------------------------------------------------- the inputs
NonZero == (-MaxVal .. MaxVal) \ {0}

\* the n x n block with v at q and 0 elsewhere
UnitMat(n, q, v) == [p \in Idx2(n) |-> IF p = q THEN Flt(v) ELSE Flt(0)]

\* the symmetric n x n block with v at q and at q transposed
SymUnitMat(n, q, v) ==
    [p \in Idx2(n) |-> IF p = q \/ p = <<q[2], q[1]>> THEN Flt(v) ELSE Flt(0)]

\* matrices with arbitrary entries, among them symmetric ones
MatInputs(n) ==
    {[p \in Idx2(n) |-> Flt(0)]}
        \cup {UnitMat(n, q, v) : q \in Idx2(n), v \in NonZero}
        \cup {SymUnitMat(n, q, v) : q \in Idx2(n), v \in NonZero}

\* dense matrices a*i + j - 1, symmetric when a = 1
DenseInputs(n) == {[p \in Idx2(n) |-> Flt(a * p[1] + p[2] - 1)] : a \in 0 .. MaxVal}

\* the images of a four-index position under the permutations of real integrals
Orbit(q) ==
    {<<q[1], q[2], q[3], q[4]>>, <<q[2], q[1], q[3], q[4]>>,
     <<q[1], q[2], q[4], q[3]>>, <<q[2], q[1], q[4], q[3]>>,
     <<q[3], q[4], q[1], q[2]>>, <<q[4], q[3], q[1], q[2]>>,
     <<q[3], q[4], q[2], q[1]>>, <<q[4], q[3], q[2], q[1]>>}

\* tensors with arbitrary entries, and tensors with the 8-fold symmetry
EriInputs(n) ==
    {[p \in Idx4(n) |-> Flt(0)]}
        \cup {[p \in Idx4(n) |-> IF p = q THEN Flt(1) ELSE Flt(0)] : q \in Idx4(n)}
        \cup {[p \in Idx4(n) |-> IF p \in Orbit(q) THEN Flt(v) ELSE Flt(0)] :
                 q \in Idx4(n), v \in NonZero}

Matrix(n, d) == [shape |-> <<n, n>>, data |-> d]
Tensor(n, d) == [shape |-> <<n, n, n, n>>, data |-> d]

NoCall == [fn |-> "none", args |-> <<>>, ret |-> Ok(0)]

\* ------------------------------------------- one Fock build (SpecFock)
\* the caller holds a core Hamiltonian, the integrals and a density
InitFock ==
    \E n \in 1 .. MaxNao :
        \E H \in DenseInputs(n), E \in EriInputs(n), D \in MatInputs(n) :
            /\ mol = [nao |-> n, nelec |-> <<0, 0>>, charges |-> <<>>, coords |-> <<>>]
            /\ heap = <<Matrix(n, H), Tensor(n, E), Matrix(n, D)>>
            /\ env = [h_core |-> 1, er_ints |-> 2, Duv |-> 3]
            /\ call = NoCall
            /\ pc = "start"

\* Fuv = calc_fock_matrix(mol, h_core, er_ints, Duv)
FockBuild ==
    /\ pc = "start"
    /\ LET r == calc_fock_matrix(heap, mol, env.h_core, env.er_ints, env.Duv)
       IN  /\ heap' = r.heap
           /\ call' = [fn |-> "calc_fock_matrix",
                       args |-> <<env.h_core, env.er_ints, env.Duv>>, ret |-> r.ret]
    /\ pc' = "done"
    /\ UNCHANGED <<mol, env>>

NextFock == FockBuild

SpecFock == InitFock /\ [][NextFock]_vars

\* ------------------------------------------------ claims on SpecFock
\* the sum of f(k, l) over all k, l in 0..n-1
Sigma(n, f(_, _)) == FSum([c \in 1 .. (n * n) |-> f(Cells(n)[c][1], Cells(n)[c][2])])

FockDone == pc = "done" /\ call.fn = "calc_fock_matrix" /\ call.ret.k = "ok"
ArgH == heap[call.args[1]].data
ArgERI == heap[call.args[2]].data
ArgD == heap[call.args[3]].data
RetF == heap[call.ret.v].data

IsSymmetric(n, M) == \A p \in Idx2(n) : M[p] = M[<<p[2], p[1]>>]

\* ERI[i,j,k,l] = ERI[j,i,k,l] = ERI[i,j,l,k] = ERI[k,l,i,j]
HasIntegralSymmetry(n, E) ==
    \A q \in Idx4(n) :
        /\ E[q] = E[<<q[2], q[1], q[3], q[4]>>]
        /\ E[q] = E[<<q[1], q[2], q[4], q[3]>>]
        /\ E[q] = E[<<q[3], q[4], q[1], q[2]>>]

\* ERI[p,q,r,s] = ERI[p,q,s,r]
HasLastPairSymmetry(n, E) == \A q \in Idx4(n) : E[q] = E[<<q[1], q[2], q[4], q[3]>>]

\* the Coulomb sum of the spec: the sum over k,l of D[k,l]*ERI[i,j,k,l]
SpecCoulomb(n, i, j) == Sigma(n, LAMBDA k, l : FMul[ArgD[<<k, l>>], ArgERI[<<i, j, k, l>>]])

\* the exchange sum as the spec writes it: the sum over k,l of D[k,l]*ERI[i,l,k,j]
SpecExchange(n, i, j) == Sigma(n, LAMBDA k, l : FMul[ArgD[<<k, l>>], ArgERI[<<i, l, k, j>>]])

\* the exchange sum over ERI's second and fourth indices: D[k,l]*ERI[i,k,j,l]
CodeExchange(n, i, j) == Sigma(n, LAMBDA k, l : FMul[ArgD[<<k, l>>], ArgERI[<<i, k, j, l>>]])

\* C1 as stated: for arbitrary H, D and ERI, F[i,j] = H[i,j] + sum_kl D[k,l]*ERI[i,j,k,l]
\* - 0.5 * sum_kl D[k,l]*ERI[i,l,k,j]
C1_Original ==
    FockDone =>
        \A p \in Idx2(mol.nao) :
            RetF[p] = FAdd[ArgH[p], FSub[SpecCoulomb(mol.nao, p[1], p[2]),
                                          FMul[<<1, 2>>, SpecExchange(mol.nao, p[1], p[2])]]]

\* C1 amended: for arbitrary H, D and ERI, F[i,j] = H[i,j] + sum_kl D[k,l]*ERI[i,j,k,l]
\* - 0.5 * sum_kl D[k,l]*ERI[i,k,j,l] (the exchange term contracts ERI's second and
\* fourth indices)
C1_FockFormula ==
    FockDone =>
        \A p \in Idx2(mol.nao) :
            RetF[p] = FAdd[ArgH[p], FSub[SpecCoulomb(mol.nao, p[1], p[2]),
                                          FMul[<<1, 2>>, CodeExchange(mol.nao, p[1], p[2])]]]

\* a Fock build on a non-symmetric density and a non-symmetric tensor whose exchange
\* term is not zero
C1_Witness ==
    /\ FockDone
    /\ ~IsSymmetric(mol.nao, ArgD)
    /\ ~HasLastPairSymmetry(mol.nao, ArgERI)
    /\ \E p \in Idx2(mol.nao) : CodeExchange(mol.nao, p[1], p[2]) # Flt(0)

\* C6: for symmetric H, symmetric D and ERI with the symmetries of real integrals,
\* the matrix F returned by calc_fock_matrix is symmetric
C6_FockSymmetric ==
    (/\ FockDone
     /\ IsSymmetric(mol.nao, ArgH)
     /\ IsSymmetric(mol.nao, ArgD)
     /\ HasIntegralSymmetry(mol.nao, ArgERI)) => IsSymmetric(mol.nao, RetF)

\* a Fock build on symmetric inputs whose two-electron part is not zero off the diagonal
C6_Witness ==
    /\ FockDone
    /\ IsSymmetric(mol.nao, ArgH)
    /\ IsSymmetric(mol.nao, ArgD)
    /\ HasIntegralSymmetry(mol.nao, ArgERI)
    /\ \E p \in Idx2(mol.nao) : p[1] # p[2] /\ RetF[p] # ArgH[p]

\* C10: for symmetric D and ERI with ERI[p,q,r,s] = ERI[p,q,s,r], the exchange sum the
\* code computes from the slice er_ints_[i, :, j] equals the spec's exchange sum, and the
\* returned F equals the spec's F = H + G(D)
C10_ExchangeAgrees ==
    (/\ FockDone
     /\ IsSymmetric(mol.nao, ArgD)
     /\ HasLastPairSymmetry(mol.nao, ArgERI)) =>
        \A p \in Idx2(mol.nao) :
            /\ MulSum(mol.nao, ArgD, ExchangeSlice(ArgERI, mol.nao, p[1], p[2]))
                   = SpecExchange(mol.nao, p[1], p[2])
            /\ RetF[p] = FAdd[ArgH[p], FSub[SpecCoulomb(mol.nao, p[1], p[2]),
                                             FMul[<<1, 2>>, SpecExchange(mol.nao, p[1], p[2])]]]

\* a Fock build on a symmetric density and a last-pair-symmetric tensor whose exchange
\* term is not zero and differs from its Coulomb term
C10_Witness ==
    /\ FockDone
    /\ IsSymmetric(mol.nao, ArgD)
    /\ HasLastPairSymmetry(mol.nao, ArgERI)
    /\ \E p \in Idx2(mol.nao) :
           /\ SpecExchange(mol.nao, p[1], p[2]) # Flt(0)
           /\ SpecExchange(mol.nao, p[1], p[2]) # SpecCoulomb(mol.nao, p[1], p[2])

\* ----------------------- a density and its energy (SpecDens)
\* coefficient matrices with up to two non-zero entries
CoeffInputs(n) ==
    {[p \in Idx2(n) |-> IF p = q THEN Flt(v) ELSE IF p = r THEN Flt(w) ELSE Flt(0)] :
        q \in Idx2(n), r \in Idx2(n), v \in NonZero, w \in 0 .. 1}

\* nuclear repulsion energies: halves
EnucInputs == {Frac[k, 2] : k \in -MaxVal .. MaxVal}

\* the caller holds orbital coefficients, a core Hamiltonian and a Fock matrix; the
\* molecule's occupation count may be any integer, valid or not
InitDens ==
    \E n \in 1 .. MaxNao :
        \E C \in CoeffInputs(n), a \in 0 .. MaxVal, occ \in -1 .. (n + 1) :
            /\ mol = [nao |-> n, nelec |-> <<occ, occ>>, charges |-> <<>>, coords |-> <<>>]
            /\ heap = <<Matrix(n, C),
                        Matrix(n, [p \in Idx2(n) |-> Flt(a * p[1] + p[2] - 1)]),
                        Matrix(n, [p \in Idx2(n) |-> Flt(p[1] + a * p[2] + 1)])>>
            /\ env = [mo_coeffs |-> 1, h_core |-> 2, Fuv |-> 3, Duv |-> Ok(0)]
            /\ call = NoCall
            /\ pc = "start"

\* Duv = form_density_matrix(mol, mo_coeffs)
DensityForm ==
    /\ pc = "start"
    /\ LET r == form_density_matrix(heap, mol, env.mo_coeffs)
       IN  /\ heap' = r.heap
           /\ call' = [fn |-> "form_density_matrix", args |-> <<env.mo_coeffs>>, ret |-> r.ret]
           /\ env' = [env EXCEPT !.Duv = r.ret]
    /\ pc' = "density"
    /\ UNCHANGED mol

\* Etot = calc_tot_energy(Fuv, h_core, Duv, Enuc), once a density was returned
EnergyEval ==
    /\ pc = "density"
    /\ env.Duv.k = "ok"
    /\ \E Enuc \in EnucInputs :
           LET r == calc_tot_energy(heap, env.Fuv, env.h_core, env.Duv.v, Enuc)
           IN  /\ heap' = r.heap
               /\ call' = [fn |-> "calc_tot_energy",
                           args |-> <<env.Fuv, env.h_core, env.Duv.v, Enuc>>, ret |-> r.ret]
    /\ pc' = "done"
    /\ UNCHANGED <<mol, env>>

NextDens == DensityForm \/ EnergyEval

SpecDens == InitDens /\ [][NextDens]_vars

\* ------------------------------------------------ claims on SpecDens
n_occ == mol.nelec[1]
DensityCalled == pc \in {"density", "done"}
ArgC == heap[env.mo_coeffs].data

\* 2 * the sum over k < n_occ of C[i,k]*C[j,k]
SpecDensity(C, i, j) ==
    FMul[Flt(2), FSum([x \in 1 .. n_occ |-> FMul[C[<<i, x - 1>>], C[<<j, x - 1>>]]])]

\* C3: for 0 <= n_occ <= N, form_density_matrix returns D with
\* D[i,j] = 2 * sum_{k < n_occ} C[i,k]*C[j,k], and changing an entry of C in a column
\* k >= n_occ does not change D
C3_DensityFormula ==
    (DensityCalled /\ 0 <= n_occ /\ n_occ <= mol.nao) =>
        /\ env.Duv.k = "ok"
        /\ heap[env.Duv.v].shape = <<mol.nao, mol.nao>>
        /\ \A p \in Idx2(mol.nao) : heap[env.Duv.v].data[p] = SpecDensity(ArgC, p[1], p[2])
        /\ \A q \in Idx2(mol.nao), v \in -MaxVal .. MaxVal :
               q[2] >= n_occ =>
                   LET C2 == [ArgC EXCEPT ![q] = Flt(v)]
                       r == form_density_matrix(<<Matrix(mol.nao, C2)>>, mol, 1)
                   IN  r.ret.k = "ok" /\ r.heap[r.ret.v] = heap[env.Duv.v]

\* a density formed from some but not all columns, with a non-zero entry in an
\* unoccupied column and a non-zero result
C3_Witness ==
    /\ DensityCalled
    /\ 0 < n_occ /\ n_occ < mol.nao
    /\ env.Duv.k = "ok"
    /\ \E q \in Idx2(mol.nao) : q[2] >= n_occ /\ ArgC[q] # Flt(0)
    /\ \E p \in Idx2(mol.nao) : heap[env.Duv.v].data[p] # Flt(0)

\* C4 as stated: whenever n_occ > N or n_occ < 0, form_density_matrix fails and returns
\* no matrix
C4_InvalidOccFails ==
    (DensityCalled /\ (n_occ > mol.nao \/ n_occ < 0)) => env.Duv.k # "ok"

\* C7: with n_occ = 0, form_density_matrix returns the N x N zero matrix and
\* calc_tot_energy applied to that density returns exactly E_nuc
C7_EmptyOccupation ==
    n_occ = 0 =>
        /\ DensityCalled => (env.Duv.k = "ok" /\ heap[env.Duv.v] = Zeros(mol.nao))
        /\ pc = "done" => (call.args[3] = env.Duv.v /\ call.ret = Ok(call.args[4]))

\* an energy evaluated on the density of n_occ = 0, with a non-zero E_nuc and
\* non-zero coefficients
C7_Witness ==
    /\ n_occ = 0
    /\ pc = "done"
    /\ call.fn = "calc_tot_energy"
    /\ call.args[4] # Flt(0)
    /\ \E p \in Idx2(mol.nao) : ArgC[p] # Flt(0)

\* ------------------------------ the nuclear repulsion energy (SpecNuc)
\* positions on the x axis, and two more that make a 3-4-5 triangle with the origin
Positions == {<<x, 0, 0>> : x \in 0 .. MaxCoord} \cup {<<3, 0, 0>>, <<0, 4, 0>>}

SquaredDistance(a, b) ==
    (a[1] - b[1]) * (a[1] - b[1]) + (a[2] - b[2]) * (a[2] - b[2]) + (a[3] - b[3]) * (a[3] - b[3])

\* the molecule: charges and positions of 1..MaxAtoms atoms, two atoms possibly at
\* the same position; every distance is a whole number
InitNuc ==
    \E n \in 1 .. MaxAtoms :
        \E ch \in [1 .. n -> 0 .. MaxCharge], co \in [1 .. n -> Positions] :
            /\ \A a, b \in 1 .. n :
                   \E r \in 0 .. SquaredDistance(co[a], co[b]) : r * r = SquaredDistance(co[a], co[b])
            /\ mol = [nao |-> 1, nelec |-> <<0, 0>>, charges |-> ch, coords |-> co]
            /\ heap = <<>>
            /\ env = [Enuc |-> Ok(0)]
            /\ call = NoCall
            /\ pc = "start"

\* Enuc = calc_nuclear_repulsion_energy(mol)
NuclearRepulsion ==
    /\ pc = "start"
    /\ LET r == calc_nuclear_repulsion_energy(mol)
       IN  /\ call' = [fn |-> "calc_nuclear_repulsion_energy", args |-> <<>>, ret |-> r]
           /\ env' = [env EXCEPT !.Enuc = r]
    /\ pc' = "done"
    /\ UNCHANGED <<mol, heap>>

NextNuc == NuclearRepulsion

SpecNuc == InitNuc /\ [][NextNuc]_vars

\* ------------------------------------------------- claims on SpecNuc
NAtoms == Len(mol.coords)

\* the sum over the pairs i < j of charge_i*charge_j / |coord_i - coord_j|
RECURSIVE SpecEnuc(_, _)
SpecEnuc(i, j) ==
    IF i > NAtoms THEN Flt(0)
    ELSE IF j > NAtoms THEN SpecEnuc(i + 1, i + 2)
    ELSE FAdd[Frac[mol.charges[i] * mol.charges[j] * Norm(mol.coords[i], mol.coords[j])[2],
                   Norm(mol.coords[i], mol.coords[j])[1]],
              SpecEnuc(i, j + 1)]

DistinctPositions == \A a, b \in 1 .. NAtoms : a # b => mol.coords[a] # mol.coords[b]

\* C2 as stated: for every number of atoms >= 1 at pairwise distinct positions,
\* calc_nuclear_repulsion_energy completes and returns the sum over i < j of
\* charge_i*charge_j / |coord_i - coord_j|
C2_NuclearFormula ==
    (pc = "done" /\ DistinctPositions) =>
        (call.ret.k = "ok" /\ call.ret.v = Fin(SpecEnuc(1, 2)))

\* C5 as stated: whenever two distinct atoms have identical coordinates,
\* calc_nuclear_repulsion_energy fails and returns no energy
C5_ZeroDistanceFails ==
    (pc = "done" /\ ~DistinctPositions) => call.ret.k # "ok"

\* -------------------- sequences of calls to the core operations (SpecCore)
Matrices == {a \in 1 .. Len(heap) : Len(heap[a].shape) = 2}
Tensors == {a \in 1 .. Len(heap) : Len(heap[a].shape) = 4}

\* the caller holds two matrices and the integrals, and goes on to call the core
\* operations in any order on any of the arrays it holds
InitCore ==
    \E n \in 1 .. MaxNao :
        \E occ \in 1 .. n :
            /\ mol = [nao |-> n, nelec |-> <<occ, occ>>, charges |-> <<>>, coords |-> <<>>]
            /\ heap = <<Matrix(n, [p \in Idx2(n) |-> IF p[1] = p[2] THEN Flt(1)
                                                      ELSE IF p[2] = p[1] + 1 THEN Flt(-1)
                                                      ELSE Flt(0)]),
                        Matrix(n, UnitMat(n, <<0, n - 1>>, 1)),
                        Tensor(n, [p \in Idx4(n) |-> IF p \in Orbit(<<0, 0, 0, n - 1>>)
                                                      THEN Flt(1) ELSE Flt(0)])>>
            /\ env = [ncalls |-> 0]
            /\ call = NoCall
            /\ pc = "core"

CoreReturn(fn, args, r) ==
    /\ heap' = r.heap
    /\ call' = [fn |-> fn, args |-> args, ret |-> r.ret]
    /\ env' = [env EXCEPT !.ncalls = @ + 1]
    /\ UNCHANGED <<mol, pc>>

CoreHcore ==
    /\ pc = "core" /\ env.ncalls < MaxCalls
    /\ \E t \in Matrices, v \in Matrices :
           CoreReturn("calc_hcore_matrix", <<t, v>>, calc_hcore_matrix(heap, t, v))

CoreFock ==
    /\ pc = "core" /\ env.ncalls < MaxCalls
    /\ \E h \in Matrices, e \in Tensors, d \in Matrices :
           CoreReturn("calc_fock_matrix", <<h, e, d>>, calc_fock_matrix(heap, mol, h, e, d))

CoreDensity ==
    /\ pc = "core" /\ env.ncalls < MaxCalls
    /\ \E c \in Matrices :
           CoreReturn("form_density_matrix", <<c>>, form_density_matrix(heap, mol, c))

CoreEnergy ==
    /\ pc = "core" /\ env.ncalls < MaxCalls
    /\ \E f \in Matrices, h \in Matrices, d \in Matrices :
           CoreReturn("calc_tot_energy", <<f, h, d, <<1, 2>>>>,
                      calc_tot_energy(heap, f, h, d, <<1, 2>>))

NextCore == CoreHcore \/ CoreFock \/ CoreDensity \/ CoreEnergy

SpecCore == InitCore /\ [][NextCore]_vars

\* ------------------------------------------------ claims on SpecCore
\* C8: no core operation mutates its inputs: over any sequence of calls to
\* calc_hcore_matrix, calc_fock_matrix, form_density_matrix and calc_tot_energy every
\* array that existed before a call holds the same values after it, and a matrix
\* returned is a fresh one
C8_NoMutation ==
    [][/\ Len(heap') >= Len(heap)
       /\ \A a \in 1 .. Len(heap) : heap'[a] = heap[a]
       /\ (call'.fn # "calc_tot_energy" /\ call'.ret.k = "ok") =>
              (call'.ret.v > Len(heap) /\ call'.ret.v <= Len(heap'))]_vars

\* a Fock build, made after another call, that returned a matrix differing from its
\* argument H
C8_Witness ==
    /\ env.ncalls >= 2
    /\ call.fn = "calc_fock_matrix"
    /\ heap[call.ret.v] # heap[call.args[1]]

\* ------------------------------------- the SCF iteration (SpecSCF)
\* the orchestration of the spec's section 4.8: Initializing, then FockBuild ->
\* Eigensolve -> DensityForm -> EnergyEval repeated, until Converged or MaxIterExceeded
ScfTolerances == {<<1, 2>>, Flt(2)}

InitSCF ==
    \E n \in 1 .. MaxNao :
        \E q \in {<<0, 0, 0, 0>>, <<0, n - 1, 0, n - 1>>}, occ \in 0 .. n,
           tol \in ScfTolerances, max_iter \in 1 .. MaxIter :
            /\ mol = [nao |-> n, nelec |-> <<occ, occ>>, charges |-> <<>>, coords |-> <<>>]
            /\ heap = <<Matrix(n, [p \in Idx2(n) |-> IF p[1] = p[2] THEN Flt(1) ELSE Flt(0)]),
                        Matrix(n, [p \in Idx2(n) |-> Flt(p[1] + p[2])]),
                        Matrix(n, [p \in Idx2(n) |-> IF p[1] = p[2] THEN Flt(-1 - p[1]) ELSE Flt(0)]),
                        Tensor(n, [p \in Idx4(n) |-> IF p \in Orbit(q) THEN Flt(1) ELSE Flt(0)])>>
            /\ env = [Suv |-> 1, Tuv |-> 2, Vuv |-> 3, er_ints |-> 4,
                      h_core |-> 0, Duv |-> 0, Fuv |-> 0, mo_coeffs |-> 0, Dnew |-> 0,
                      Enuc |-> <<1, 2>>, E_prev |-> Flt(0), Etot |-> Flt(0),
                      iter |-> 0, tol |-> tol, max_iter |-> max_iter]
            /\ call = NoCall
            /\ pc = "Initializing"

\* Initializing: build H and the initial (zero) density
ScfInitialize ==
    /\ pc = "Initializing"
    /\ LET h == calc_hcore_matrix(heap, env.Tuv, env.Vuv)
           d == calc_initial_density(h.heap, mol)
       IN  /\ heap' = d.heap
           /\ env' = [env EXCEPT !.h_core = h.ret.v, !.Duv = d.ret.v]
           /\ call' = [fn |-> "calc_initial_density", args |-> <<>>, ret |-> d.ret]
    /\ pc' = "FockBuild"
    /\ UNCHANGED mol

\* F = FockBuild(H, ERI, D)
ScfFockBuild ==
    /\ pc = "FockBuild"
    /\ LET r == calc_fock_matrix(heap, mol, env.h_core, env.er_ints, env.Duv)
       IN  /\ heap' = r.heap
           /\ env' = [env EXCEPT !.Fuv = r.ret.v]
           /\ call' = [fn |-> "calc_fock_matrix",
                       args |-> <<env.h_core, env.er_ints, env.Duv>>, ret |-> r.ret]
    /\ pc' = "Eigensolve"
    /\ UNCHANGED mol

\* (eps, C) = Eigensolve(F, S)
ScfEigensolve ==
    /\ pc = "Eigensolve"
    /\ \E r \in solve_Roothan_equations(heap, env.Fuv, env.Suv) :
           /\ heap' = r.heap
           /\ env' = [env EXCEPT !.mo_coeffs = r.ret.v]
           /\ call' = [fn |-> "solve_Roothan_equations",
                       args |-> <<env.Fuv, env.Suv>>, ret |-> r.ret]
    /\ pc' = "DensityForm"
    /\ UNCHANGED mol

\* D' = DensityForm(C, n_occ)
ScfDensityForm ==
    /\ pc = "DensityForm"
    /\ LET r == form_density_matrix(heap, mol, env.mo_coeffs)
       IN  /\ heap' = r.heap
           /\ env' = [env EXCEPT !.Dnew = r.ret.v]
           /\ call' = [fn |-> "form_density_matrix", args |-> <<env.mo_coeffs>>, ret |-> r.ret]
    /\ pc' = "EnergyEval"
    /\ UNCHANGED mol

\* |E' - E_prev| < tolerance
EnergyCriterion(E, E_prev, tol) == FLess(FAbs(FSub[E, E_prev]), tol)

\* a faulty variant: the bound on the iterations ends the loop as if it had converged
ScfAfterEnergyTruncating(E, e) ==
    IF EnergyCriterion(E, e.E_prev, e.tol) \/ e.iter + 1 >= e.max_iter
    THEN [pc |-> "Converged", env |-> [e EXCEPT !.Etot = E, !.iter = @ + 1]]
    ELSE [pc |-> "FockBuild",
          env |-> [e EXCEPT !.Etot = E, !.iter = @ + 1, !.Duv = e.Dnew, !.E_prev = E]]

\* the end of an iteration: Converged when the criterion is met; otherwise
\* MaxIterExceeded when the bound on the iterations is reached; otherwise D and E_prev
\* become D' and E' and the next iteration begins
ScfAfterEnergy(E, e) ==
    IF EnergyCriterion(E, e.E_prev, e.tol)
    THEN [pc |-> "Converged", env |-> [e EXCEPT !.Etot = E, !.iter = @ + 1]]
    ELSE IF e.iter + 1 >= e.max_iter
    THEN [pc |-> "MaxIterExceeded", env |-> [e EXCEPT !.Etot = E, !.iter = @ + 1]]
    ELSE [pc |-> "FockBuild",
          env |-> [e EXCEPT !.Etot = E, !.iter = @ + 1, !.Duv = e.Dnew, !.E_prev = E]]

\* E' = EnergyEval(F, H, D', E_nuc), then the convergence check
ScfEnergyEval ==
    /\ pc = "EnergyEval"
    /\ LET r == calc_tot_energy(heap, env.Fuv, env.h_core, env.Dnew, env.Enuc)
           nxt == ScfAfterEnergy(r.ret.v, env)
       IN  /\ heap' = r.heap
           /\ call' = [fn |-> "calc_tot_energy",
                       args |-> <<env.Fuv, env.h_core, env.Dnew, env.Enuc>>, ret |-> r.ret]
           /\ env' = nxt.env
           /\ pc' = nxt.pc
    /\ UNCHANGED mol

NextSCF == ScfInitialize \/ ScfFockBuild \/ ScfEigensolve \/ ScfDensityForm \/ ScfEnergyEval

\* the loop is synchronous and single-threaded: a step that can be taken is taken
SpecSCF == InitSCF /\ [][NextSCF]_vars /\ WF_vars(NextSCF)

\* ------------------------------------------------- claims on SpecSCF
ScfEnded == pc \in {"Converged", "MaxIterExceeded"}

C9_WitnessConverged == pc = "Converged" /\ env.iter = 2

====
